---- MODULE Spec2Model ----
(***************************************************************************)
(* Model of the Power BI refresh-schedule collection pipeline              *)
(* (src/src/info.py, WebExtractor).                                        *)
(*                                                                         *)
(* The program is sequential.  One step of the model is one HTTP request   *)
(* together with all the code that runs between its answer and the next    *)
(* request (or the return / termination of the program).  The answers of   *)
(* the remote services are the inputs, drawn from small sets.              *)
(*                                                                         *)
(* Python dicts keep insertion order: a dict is modelled as a sequence of  *)
(* entries [k |-> key, v |-> value] with pairwise different keys.          *)
(* JSON values of different Python types stored in one dict are tagged     *)
(* records [kind |-> ..., val |-> ...].                                    *)
(***************************************************************************)
EXTENDS Naturals, Sequences, FiniteSets, TLC

(***************************************************************************)
(* Bounds of the model.                                                    *)
(***************************************************************************)
\* attempt ceiling of the stages (imported from src.common, value not in src/)
MAX_RETRIES == 2
\* longest workspace list a listing answer carries
MaxRecords == 2
\* longest dataset list a datasets answer carries
MaxDatasets == 2
\* number of tokens the credential provider issues in one run
MaxLogins == 2
\* number of get_info() calls on one WebExtractor
MaxCalls == 2

(***************************************************************************)
(* Ordered dicts.                                                          *)
(***************************************************************************)
Has(d, key) == \E i \in 1..Len(d) : d[i].k = key

IndexOf(d, key) == CHOOSE i \in 1..Len(d) : d[i].k = key

Get(d, key) == d[IndexOf(d, key)].v

\* d[key] = value / d.update({key: value}): an existing key keeps its place
Put(d, key, value) ==
    IF Has(d, key)
    THEN [d EXCEPT ![IndexOf(d, key)] = [k |-> key, v |-> value]]
    ELSE Append(d, [k |-> key, v |-> value])

\* d.setdefault(key, value)
SetDefault(d, key, value) == IF Has(d, key) THEN d ELSE Put(d, key, value)

RECURSIVE UpdateAll(_, _)
\* d.update(e) for an ordered dict e
UpdateAll(d, e) ==
    IF e = <<>> THEN d
    ELSE UpdateAll(Put(d, Head(e).k, Head(e).v), Tail(e))

SeqHas(q, x) == \E i \in 1..Len(q) : q[i] = x

(***************************************************************************)
(* JSON values and the memo slots.                                         *)
(***************************************************************************)
VStr(s) == [kind |-> "str", val |-> s]
VList(q) == [kind |-> "list", val |-> q]
VBool(b) == [kind |-> "bool", val |-> b]
VDict(d) == [kind |-> "dict", val |-> d]
\* the sentinel of a missing schedule field
NONE == VStr("none")
\* the empty placeholder record {}
EmptyRecord == VDict(<<>>)

\* A memo slot self._workspaces / self._objects / self._data holds the dict
\* it was constructed with, or the text json.dumps returned, or "".
\* json.dumps(v): a JSON text; it carries v and is never the empty string
\* (the text of an empty list is "[]", of an empty dict "{}").
JsonDumps(v) == [tag |-> "str", empty |-> FALSE, val |-> v]
\* json.loads(text)
JsonLoads(m) == m.val
\* a slot holding a Python dict
AsDict(v) == [tag |-> "dict", empty |-> (v = <<>>), val |-> v]
\* Python truth value of a slot: a dict or a str is false exactly when empty
Truthy(m) == ~m.empty

(***************************************************************************)
(* Inputs: what the remote services can answer.                            *)
(***************************************************************************)
\* HTTP status of an answer; NoResponse stands for a transport failure
\* (timeout, connection error): requests.get raises and no response exists
NoResponse == 0
OK == 200
FORBIDDEN == 403
NOT_FOUND == 404
SERVER_ERROR == 500

\* workspace records of a listing answer; "" is a missing or empty field
WsRecords ==
    { [name |-> "WA", id |-> "1"], [name |-> "WA", id |-> "2"],
      [name |-> "WB", id |-> "2"], [name |-> "", id |-> "3"],
      [name |-> "WB", id |-> ""] }

RECURSIVE SeqsUpTo(_, _)
\* all sequences over S of length at most n
SeqsUpTo(S, n) ==
    IF n = 0 THEN {<<>>}
    ELSE LET shorter == SeqsUpTo(S, n - 1)
         IN shorter \cup {Append(q, x) : q \in shorter, x \in S}

WorkspaceLists == SeqsUpTo(WsRecords, MaxRecords)

DatasetNames == {"D1", "D2"}
\* a datasets answer lists names; the id of dataset n of the workspace with
\* id i is written i/n, so an id tells in which workspace it was listed
\* the tenant: the datasets each workspace holds, by workspace id
TenantDatasets(wid) == IF wid = "1" THEN {"D1", "D2"} ELSE {"D2"}
DatasetLists(wid) == SeqsUpTo(TenantDatasets(wid), MaxDatasets)
DatasetId(wid, n) == <<wid, n>>

DataflowLists == {<<[name |-> "F1", objectId |-> "f1"]>>}

\* bodies of a successful refresh-schedule answer: an ordered dict that may
\* lack any of the fields days, times, enabled
BodyFull ==
    << [k |-> "days", v |-> VList(<<"Monday">>)],
       [k |-> "times", v |-> VList(<<"08:00", "20:00">>)],
       [k |-> "enabled", v |-> VBool(TRUE)] >>
BodyNoTimes == << [k |-> "enabled", v |-> VBool(FALSE)] >>
Bodies == {BodyFull, BodyNoTimes}

S1Answers ==
    {[status |-> OK, value |-> l] : l \in WorkspaceLists}
    \cup {[status |-> c, value |-> <<>>] : c \in {FORBIDDEN, SERVER_ERROR, NoResponse}}

S2DataflowAnswers ==
    {[status |-> OK, value |-> l] : l \in DataflowLists}
    \cup {[status |-> c, value |-> <<>>] : c \in {FORBIDDEN, SERVER_ERROR, NoResponse}}

S2DatasetAnswers ==
    {[status |-> OK, value |-> l] : l \in SeqsUpTo(DatasetNames, MaxDatasets)}
    \cup {[status |-> c, value |-> <<>>] : c \in {FORBIDDEN, SERVER_ERROR, NoResponse}}

S3Answers ==
    {[status |-> OK, body |-> b] : b \in Bodies}
    \cup {[status |-> c, body |-> <<>>] :
            c \in {NOT_FOUND, FORBIDDEN, SERVER_ERROR, NoResponse}}

(***************************************************************************)
(* State.                                                                  *)
(***************************************************************************)
VARIABLES
    pc,              \* where the program is: "idle", "s1", "s2_df", "s2_ds",
                     \* "s3", "done", "exited", "crashed"
    access_token,    \* self._access_token: the number of the token held
    logins,          \* tokens issued so far by login(); token 0 is the
                     \* one read from the environment
    self_workspaces, \* self._workspaces
    self_objects,    \* self._objects
    self_data,       \* self._data
    self_canceled,   \* self._canceled
    attempt1,        \* attempt of _get_workspaces (0: not running)
    attempt2,        \* attempt of _get_w_objects (0: not running)
    headers2,        \* token in the headers of _get_w_objects
    headers3,        \* token in the headers of _get_schedules
    all_content,     \* accumulator of _get_w_objects
    wi,              \* index of the workspace of the running loop
    di,              \* index of the dataset of the running Stage 3 loop
    slept,           \* whether time.sleep(REQUEST_INTERVAL) ran after the
                     \* last Stage 3 request
    exitCode,        \* <<>> while the process runs, <<status>> once it ended
    fatal,           \* whether Logger.critical was called
    lastReq,         \* the last HTTP request issued
    passLog,         \* answers of the current Stage 3 pass, in order
    objLog,          \* answers of the running Stage 2 pass, in order
    ret,             \* what get_info() last returned
    calls            \* number of get_info() calls made

\* UpdateSharepointFile (src/src/sharepoint.py) and its put_in_sharepoint
VARIABLES
    sp_pc,           \* "idle", "put" (in the upload loop), "uploaded"
    sp_access_token, \* self._access_token of the uploader
    sp_logins,       \* tokens issued so far for the SharePoint scope
    sp_data,         \* self._data: the table of rows
    excel_buffer,    \* the spreadsheet binary built from the table
    sp_attempt,      \* attempt of the upload loop (0: not running)
    puts             \* the PUT requests issued so far, in order

spVars ==
    << sp_pc, sp_access_token, sp_logins, sp_data, excel_buffer, sp_attempt,
       puts >>

\* the state of WebExtractor and its call, apart from the process status
infoVars ==
    << pc, access_token, logins, self_workspaces, self_objects, self_data,
       self_canceled, attempt1, attempt2, headers2, headers3, all_content,
       wi, di, slept, lastReq, passLog, objLog, ret, calls >>

vars == << infoVars, exitCode, fatal, spVars >>

NoExit == <<>>
NoReq ==
    [stage |-> 0, ws |-> "", item |-> <<>>, tok |-> 0, latest |-> 0,
     status |-> OK, listed |-> <<>>]
NoRet == [set |-> FALSE, val |-> <<>>]

State ==
    [ pc |-> pc, access_token |-> access_token, logins |-> logins,
      self_workspaces |-> self_workspaces, self_objects |-> self_objects,
      self_data |-> self_data, self_canceled |-> self_canceled,
      attempt1 |-> attempt1, attempt2 |-> attempt2, headers2 |-> headers2,
      headers3 |-> headers3, all_content |-> all_content, wi |-> wi,
      di |-> di, slept |-> slept, exitCode |-> exitCode, fatal |-> fatal,
      lastReq |-> lastReq, passLog |-> passLog, objLog |-> objLog,
      ret |-> ret, calls |-> calls ]

Becomes(s) ==
    /\ pc' = s.pc
    /\ access_token' = s.access_token
    /\ logins' = s.logins
    /\ self_workspaces' = s.self_workspaces
    /\ self_objects' = s.self_objects
    /\ self_data' = s.self_data
    /\ self_canceled' = s.self_canceled
    /\ attempt1' = s.attempt1
    /\ attempt2' = s.attempt2
    /\ headers2' = s.headers2
    /\ headers3' = s.headers3
    /\ all_content' = s.all_content
    /\ wi' = s.wi
    /\ di' = s.di
    /\ slept' = s.slept
    /\ exitCode' = s.exitCode
    /\ fatal' = s.fatal
    /\ lastReq' = s.lastReq
    /\ passLog' = s.passLog
    /\ objLog' = s.objLog
    /\ ret' = s.ret
    /\ calls' = s.calls
    /\ UNCHANGED spVars

\* WebExtractor.__init__
Init ==
    /\ pc = "idle"
    /\ access_token = 0
    /\ logins = 0
    /\ self_workspaces = AsDict(<<>>)
    /\ self_objects = AsDict(<<>>)
    /\ self_data = AsDict(<<>>)
    /\ self_canceled = <<>>
    /\ attempt1 = 0
    /\ attempt2 = 0
    /\ headers2 = 0
    /\ headers3 = 0
    /\ all_content = <<>>
    /\ wi = 0
    /\ di = 0
    /\ slept = FALSE
    /\ exitCode = NoExit
    /\ fatal = FALSE
    /\ lastReq = NoReq
    /\ passLog = <<>>
    /\ objLog = <<>>
    /\ ret = NoRet
    /\ calls = 0
    \* UpdateSharepointFile.__init__
    /\ sp_pc = "idle"
    /\ sp_access_token = 0
    /\ sp_logins = 0
    /\ sp_data = <<>>
    /\ excel_buffer = <<>>
    /\ sp_attempt = 0
    /\ puts = <<>>

(***************************************************************************)
(* Stage 3: _get_schedules.                                                *)
(***************************************************************************)
\* the Stage 2 result as _get_schedules reads it (objects)
Objects(s) == JsonLoads(s.self_objects)

\* self._data[w]["datasets"]
DatasetsOf(data, w) == Get(Get(data, w).val, "datasets").val

\* self._data[w]["datasets"] = ds
WithDatasets(data, w, ds) ==
    Put(data, w, VDict(Put(Get(data, w).val, "datasets", VDict(ds))))

\* self._canceled[w]["datasets"]
CanceledOf(canc, w) == Get(Get(canc, w).val, "datasets").val

\* the first statements of an iteration over a workspace: the headers are
\* built from the token held now, the entries of the workspace are created
EnterWorkspace(s, w) ==
    LET d1 == SetDefault(s.self_data.val, w, VDict(<<>>))
        d2 == Put(d1, w, VDict(SetDefault(Get(d1, w).val, "datasets", VDict(<<>>))))
        c1 == SetDefault(s.self_canceled, w, VDict(<<>>))
        c2 == Put(c1, w, VDict(SetDefault(Get(c1, w).val, "datasets", VList(<<>>))))
    IN  [s EXCEPT !.headers3 = s.access_token,
                  !.self_data = AsDict(d2),
                  !.self_canceled = c2]

\* get_info returns json.loads of what the property schedules gave
get_info_return(s, text) ==
    [s EXCEPT !.ret = [set |-> TRUE, val |-> JsonLoads(text)], !.pc = "done"]

\* the property schedules stores what _get_schedules returned
schedules_store(s, text) ==
    get_info_return([s EXCEPT !.self_data = text], text)

\* the end of _get_schedules: the canceled lists go under "canceled" and the
\* whole of self._data is returned as JSON text
get_schedules_return(s) ==
    LET data == s.self_data.val
        merged == UpdateAll(Get(data, "canceled").val, s.self_canceled)
        final == Put(data, "canceled", VDict(merged))
    IN  schedules_store(
            [s EXCEPT !.self_data = AsDict(final), !.wi = 0, !.di = 0,
                      !.headers3 = 0],
            JsonDumps(final))

RECURSIVE NextWorkspace3(_, _)
\* the loop over the workspaces from index i on, up to the next request
NextWorkspace3(s, i) ==
    LET objects == Objects(s) IN
    IF i > Len(objects) THEN get_schedules_return(s)
    ELSE LET t == EnterWorkspace(s, objects[i].k) IN
         IF objects[i].v.datasets = <<>> THEN NextWorkspace3(t, i + 1)
         ELSE [t EXCEPT !.pc = "s3", !.wi = i, !.di = 1]

\* the loop over the datasets goes on after the dataset at (wi, di)
NextDataset3(s) ==
    IF s.di < Len(Objects(s)[s.wi].v.datasets)
    THEN [s EXCEPT !.di = s.di + 1]
    ELSE NextWorkspace3(s, s.wi + 1)

\* login(SCOPE): the credential provider issues the next token
login(s) == [s EXCEPT !.logins = s.logins + 1]
NewToken(s) == s.logins

\* self._data[w]["datasets"].setdefault(d, {})
Placeholder(s, w, d) ==
    [s EXCEPT !.self_data =
        AsDict(WithDatasets(s.self_data.val, w,
                   SetDefault(DatasetsOf(s.self_data.val, w), d, EmptyRecord)))]

\* dataset_data.get(field, "none")
FieldOr(body, field) == IF Has(body, field) THEN Get(body, field) ELSE NONE

\* the record built from a successful answer
ScheduleFields(d, body) ==
    << [k |-> "name", v |-> VStr(d)],
       [k |-> "days", v |-> FieldOr(body, "days")],
       [k |-> "times", v |-> FieldOr(body, "times")],
       [k |-> "enabled", v |-> FieldOr(body, "enabled")] >>

\* self._data[w]["datasets"].update({...}) on a successful answer
StoreSchedule(s, w, d, body) ==
    [s EXCEPT !.self_data =
        AsDict(WithDatasets(s.self_data.val, w,
                   UpdateAll(DatasetsOf(s.self_data.val, w),
                             ScheduleFields(d, body))))]

\* a slip: the workspace name is appended in place of the dataset name (the
\* order in which the warning before it passes the two)
AppendCanceledSwapped(s, w, d) ==
    [s EXCEPT !.self_canceled =
        Put(s.self_canceled, w,
            VDict(Put(Get(s.self_canceled, w).val, "datasets",
                      VList(Append(CanceledOf(s.self_canceled, w), w)))))]

\* self._canceled[w]["datasets"].append(d) on a 404
AppendCanceled(s, w, d) ==
    [s EXCEPT !.self_canceled =
        Put(s.self_canceled, w,
            VDict(Put(Get(s.self_canceled, w).val, "datasets",
                      VList(Append(CanceledOf(s.self_canceled, w), d)))))]

\* the loops of _get_schedules start at the first workspace
SchedulesLoop(s) == NextWorkspace3([s EXCEPT !.passLog = <<>>], 1)

(***************************************************************************)
(* Stage 2: _get_w_objects.                                                *)
(***************************************************************************)
\* the Stage 1 result as _get_w_objects reads it
Workspaces(s) == JsonLoads(s.self_workspaces)

\* the property workspace_objects stores what _get_w_objects returned;
\* _get_schedules, which asked for it, goes on
workspace_objects_store(s, text) ==
    SchedulesLoop([s EXCEPT !.self_objects = text])

\* the end of a pass that no request failure interrupted
get_w_objects_return(s) ==
    workspace_objects_store(
        [s EXCEPT !.all_content = <<>>, !.attempt2 = 0, !.headers2 = 0,
                  !.wi = 0, !.objLog = <<>>],
        JsonDumps(s.all_content))

\* the loop over the workspaces goes on at index i
NextWorkspace2(s, i) ==
    IF i > Len(Workspaces(s)) THEN get_w_objects_return(s)
    ELSE [s EXCEPT !.pc = "s2_df", !.wi = i]

\* all_content.setdefault(workspace['name'], {...})
ContentEntry(content, workspace) ==
    SetDefault(content, workspace.name,
               [workspace_id |-> workspace.id, dataflows |-> <<>>,
                datasets |-> <<>>])

RECURSIVE AddDataflows(_, _)
\* all_content[name]['dataflows'].update({name: objectId}) for each dataflow
AddDataflows(d, flows) ==
    IF flows = <<>> THEN d
    ELSE AddDataflows(Put(d, Head(flows).name, Head(flows).objectId), Tail(flows))

RECURSIVE AddDatasets(_, _, _)
\* all_content[name]['datasets'].update({name: id}) for each dataset
AddDatasets(d, wid, names) ==
    IF names = <<>> THEN d
    ELSE AddDatasets(Put(d, Head(names), DatasetId(wid, Head(names))), wid,
                     Tail(names))

(***************************************************************************)
(* Stage 1: _get_workspaces.                                               *)
(***************************************************************************)
RECURSIVE NamedWorkspacesNameOnly(_)
\* a slip: only the name is tested, a record without an id is kept
NamedWorkspacesNameOnly(records) ==
    IF records = <<>> THEN <<>>
    ELSE LET w == Head(records)
             rest == NamedWorkspacesNameOnly(Tail(records))
         IN  IF w.name # "" THEN <<w>> \o rest ELSE rest

RECURSIVE NamedWorkspaces(_)
\* the records that have a name and an id
NamedWorkspaces(records) ==
    IF records = <<>> THEN <<>>
    ELSE LET w == Head(records)
             rest == NamedWorkspaces(Tail(records))
         IN  IF w.name # "" /\ w.id # "" THEN <<w>> \o rest ELSE rest

RECURSIVE Distinct(_, _)
\* list({(w["name"], w["id"]): w ...}.values()): one entry per pair, at the
\* place of its first occurrence
Distinct(seen, records) ==
    IF records = <<>> THEN seen
    ELSE Distinct(IF SeqHas(seen, Head(records)) THEN seen
                  ELSE Append(seen, Head(records)),
                  Tail(records))

ListedWorkspaces(records) == Distinct(<<>>, NamedWorkspaces(records))

\* the property workspaces stores what _get_workspaces returned;
\* _get_w_objects, which asked for it, starts its loop
workspaces_store(s, text) ==
    NextWorkspace2([s EXCEPT !.self_workspaces = text, !.attempt1 = 0], 1)

\* a slip: the property workspaces tests the slot of the next stage
workspaces_stored_other_slot(s) == Truthy(s.self_objects)

\* the test of the property workspaces: a stored value is returned as it is
workspaces_stored(s) == Truthy(s.self_workspaces)

\* the test of the property workspace_objects
workspace_objects_stored(s) == Truthy(s.self_objects)

\* the test of the property schedules
schedules_stored(s) == Truthy(s.self_data)

\* a slip: the accumulator is created once, before the attempts, and an
\* attempt starts with what the attempt before it had gathered
get_w_objects_attempt_keep(s, n) ==
    LET t == [s EXCEPT !.attempt2 = n, !.objLog = <<>>,
                       !.headers2 = s.access_token]
    IN  IF workspaces_stored(t) THEN NextWorkspace2(t, 1)
        ELSE [t EXCEPT !.pc = "s1", !.attempt1 = 1]

\* the start of attempt n of _get_w_objects: the accumulator is emptied, the
\* headers are built from the token held now, and then the workspace list is
\* read through the property workspaces
get_w_objects_attempt(s, n) ==
    LET t == [s EXCEPT !.attempt2 = n, !.all_content = <<>>,
                       !.objLog = <<>>, !.headers2 = s.access_token]
    IN  IF workspaces_stored(t) THEN NextWorkspace2(t, 1)
        ELSE [t EXCEPT !.pc = "s1", !.attempt1 = 1]

\* sys.exit() without an argument ends the process with status 0
SysExit(s) == [s EXCEPT !.pc = "exited", !.exitCode = <<0>>]

\* an exception no handler catches ends the process with status 1
Uncaught(s) == [s EXCEPT !.pc = "crashed", !.exitCode = <<1>>]

\* the except clause of _get_w_objects
get_w_objects_except(s) ==
    IF s.attempt2 < MAX_RETRIES
    THEN get_w_objects_attempt(s, s.attempt2 + 1)
    ELSE SysExit([s EXCEPT !.fatal = TRUE])

\* the start of _get_schedules, of the first call and of the recursive call
\* alike: "canceled" is created if missing, then the Stage 2 result is read
\* through the property workspace_objects
get_schedules(s) ==
    LET t == [s EXCEPT !.self_data =
                 AsDict(SetDefault(s.self_data.val, "canceled", VDict(<<>>)))]
    IN  IF workspace_objects_stored(t) THEN SchedulesLoop(t)
        ELSE get_w_objects_attempt(t, 1)

\* handle_request_exception(attempt, error, scope) of src.common: once the
\* attempts are used up it logs a fatal entry and ends the process with a
\* non-zero status; on a 403 it fetches a new token with login(scope) and
\* returns it; on any other failure it waits and the credential stays as it is
handle_request_exception(s, attempt, status) ==
    IF attempt >= MAX_RETRIES
    THEN [s EXCEPT !.pc = "exited", !.exitCode = <<1>>, !.fatal = TRUE]
    ELSE IF status = FORBIDDEN
         THEN LET t == login(s) IN [t EXCEPT !.access_token = NewToken(t)]
         ELSE s

\* the except clause of _get_workspaces and the end of its loop
get_workspaces_except(s, status) ==
    LET t == handle_request_exception(s, s.attempt1, status) IN
    IF t.pc = "exited" THEN t
    ELSE IF s.attempt1 < MAX_RETRIES
         THEN [t EXCEPT !.attempt1 = s.attempt1 + 1]
         \* return "": json.loads("") in _get_w_objects raises a ValueError
         ELSE Uncaught([t EXCEPT !.self_workspaces =
                           [tag |-> "str", empty |-> TRUE, val |-> <<>>]])

(***************************************************************************)
(* The steps.                                                              *)
(***************************************************************************)
\* requests.get(url, headers): the request of a stage for an item of a
\* workspace, the token its headers carry, the token held when it is
\* issued, and the status of its answer (listed: the list a successful
\* answer of Stage 1 or Stage 2 carried, filled in by their steps)
Request(s, stage, ws, item, tok, status) ==
    [s EXCEPT !.lastReq = [stage |-> stage, ws |-> ws, item |-> item,
                           tok |-> tok, latest |-> s.access_token,
                           status |-> status, listed |-> <<>>]]

\* get_info() is called: the property schedules returns the stored text or
\* runs _get_schedules
GetInfo ==
    /\ pc \in {"idle", "done"}
    /\ exitCode = NoExit
    /\ sp_pc # "put"
    /\ calls < MaxCalls
    /\ LET s == [State EXCEPT !.calls = calls + 1] IN
       Becomes(IF schedules_stored(s) THEN get_info_return(s, s.self_data)
               ELSE get_schedules(s))

\* one attempt of _get_workspaces: the listing request and its answer
S1Request(a) ==
    /\ pc = "s1"
    /\ a.status = FORBIDDEN => logins < MaxLogins
    /\ LET s == [Request(State, 1, "", <<>>, access_token, a.status)
                    EXCEPT !.lastReq.listed = a.value]
       IN
       Becomes(IF a.status = OK
               THEN workspaces_store(s, JsonDumps(ListedWorkspaces(a.value)))
               ELSE get_workspaces_except(s, a.status))

\* the answer of a Stage 2 request: the list it carried is kept with the
\* request, and the request joins the log of the pass
Answered2(s, a) ==
    [s EXCEPT !.lastReq.listed = a.value,
              !.objLog = Append(s.objLog,
                                [s.lastReq EXCEPT !.listed = a.value])]

\* an iteration of the loop of _get_w_objects up to the answer of the
\* dataflows request
S2Dataflows(a) ==
    /\ pc = "s2_df"
    /\ LET workspace == Workspaces(State)[wi]
           s == Answered2(
                    Request([State EXCEPT !.all_content =
                                ContentEntry(all_content, workspace)],
                            2, workspace.id, <<"dataflows">>, headers2,
                            a.status),
                    a)
           entry == Get(s.all_content, workspace.name)
       IN  Becomes(
             CASE a.status = FORBIDDEN -> NextWorkspace2(s, wi + 1)
               [] a.status = OK ->
                    [s EXCEPT !.pc = "s2_ds",
                              !.all_content =
                                  Put(s.all_content, workspace.name,
                                      [entry EXCEPT !.dataflows =
                                          AddDataflows(entry.dataflows, a.value)])]
               [] OTHER -> get_w_objects_except(s))

\* the rest of the iteration: the datasets request and its answer
S2Datasets(a) ==
    /\ pc = "s2_ds"
    /\ a.status = OK => a.value \in DatasetLists(Workspaces(State)[wi].id)
    /\ LET workspace == Workspaces(State)[wi]
           s == Answered2(
                    Request(State, 2, workspace.id, <<"datasets">>, headers2,
                            a.status),
                    a)
           entry == Get(s.all_content, workspace.name)
       IN  Becomes(
             CASE a.status = FORBIDDEN -> NextWorkspace2(s, wi + 1)
               [] a.status = OK ->
                    NextWorkspace2(
                        [s EXCEPT !.all_content =
                            Put(s.all_content, workspace.name,
                                [entry EXCEPT !.datasets =
                                    AddDatasets(entry.datasets, workspace.id,
                                                a.value)])],
                        wi + 1)
               [] OTHER -> get_w_objects_except(s))

\* a slip: after the new token the loop resumes at the next dataset instead
\* of starting over
get_schedules_except_resume(s, a) ==
    IF a.status = NoResponse
    THEN Uncaught(s)
    ELSE IF a.status = FORBIDDEN
         THEN LET t == login(s)
              IN  NextDataset3([t EXCEPT !.access_token = NewToken(t)])
         ELSE NextDataset3(s)

\* the except clause of the dataset loop of _get_schedules
get_schedules_except(s, a) ==
    IF a.status = NoResponse
    \* error.response is None: reading its status_code raises AttributeError
    THEN Uncaught(s)
    ELSE IF a.status = FORBIDDEN
         THEN LET t == login(s)
              IN  get_schedules([t EXCEPT !.access_token = NewToken(t)])
         ELSE NextDataset3(s)

\* a slip: the 404 is left to raise_for_status, and the except clause takes
\* it for an expired token as it does a 403
schedules_step_404_reauth(s0, a) ==
    LET w == Objects(s0)[s0.wi].k
        content == Objects(s0)[s0.wi].v
        d == content.datasets[s0.di].k
        s == Request([Placeholder(s0, w, d) EXCEPT
                         !.slept = FALSE,
                         !.passLog = Append(s0.passLog,
                                            [w |-> w, d |-> d, a |-> a])],
                     3, content.workspace_id, content.datasets[s0.di].v,
                     s0.headers3, a.status)
    IN  CASE a.status = NOT_FOUND ->
               get_schedules_except(s, [a EXCEPT !.status = FORBIDDEN])
          [] a.status = OK ->
               NextDataset3([StoreSchedule(s, w, d, a.body) EXCEPT
                                !.slept = TRUE])
          [] OTHER -> get_schedules_except(s, a)

\* an iteration of the dataset loop of _get_schedules: the refresh-schedule
\* request of the dataset at (wi, di), its answer a, and what follows up to
\* the next request
schedules_step(s0, a) ==
    LET w == Objects(s0)[s0.wi].k
        content == Objects(s0)[s0.wi].v
        d == content.datasets[s0.di].k
        s == Request([Placeholder(s0, w, d) EXCEPT
                         !.slept = FALSE,
                         !.passLog = Append(s0.passLog,
                                            [w |-> w, d |-> d, a |-> a])],
                     3, content.workspace_id, content.datasets[s0.di].v,
                     s0.headers3, a.status)
    IN  CASE a.status = NOT_FOUND -> NextDataset3(AppendCanceled(s, w, d))
          [] a.status = OK ->
               NextDataset3([StoreSchedule(s, w, d, a.body) EXCEPT
                                !.slept = TRUE])
          [] OTHER -> get_schedules_except(s, a)

S3Request(a) ==
    /\ pc = "s3"
    /\ a.status = FORBIDDEN => logins < MaxLogins
    /\ Becomes(schedules_step(State, a))

Next ==
    \/ GetInfo
    \/ \E a \in S1Answers : S1Request(a)
    \/ \E a \in S2DataflowAnswers : S2Dataflows(a)
    \/ \E a \in S2DatasetAnswers : S2Datasets(a)
    \/ \E a \in S3Answers : S3Request(a)

Spec == Init /\ [][Next]_vars

(***************************************************************************)
(* put_in_sharepoint (src/src/sharepoint.py, UpdateSharepointFile).        *)
(***************************************************************************)
CREATED == 201
NO_CONTENT == 204
\* a 2xx status that is none of the three
ACCEPTED == 202

\* request.status_code in (200, 201, 204)
Uploaded(status) == status \in {OK, CREATED, NO_CONTENT}

\* what the SharePoint service can answer to the PUT
PutAnswers ==
    {OK, CREATED, NO_CONTENT, ACCEPTED, FORBIDDEN, SERVER_ERROR, NoResponse}

\* the default "-" of dataset.get and the fill value of fillna
DASH == VStr("-")

\* a for loop over the str "none" yields its characters
NoneChars == <<VStr("n"), VStr("o"), VStr("n"), VStr("e")>>

\* for hour in v: the elements of a list, the characters of a str
Iterate(v) ==
    CASE v.kind = "list" -> [i \in 1..Len(v.val) |-> VStr(v.val[i])]
      [] v = NONE -> NoneChars

\* dataset.get(field, "-")
GetOr(d, field, default) == IF Has(d, field) THEN Get(d, field) ELSE default

\* for hour in dataset.get("times", []): rows.append({...})
TimeRows(workspace, dataset) ==
    LET hours == IF Has(dataset, "times") THEN Iterate(Get(dataset, "times"))
                 ELSE <<>>
    IN  [i \in 1..Len(hours) |->
            [lastupdated |-> VStr("now"),
             name |-> GetOr(dataset, "name", DASH),
             workspace |-> VStr(workspace),
             time |-> hours[i],
             enabled |-> GetOr(dataset, "enabled", DASH)]]

RECURSIVE ItemsRows(_, _)
\* for _, dataset in objects.items(): the rows of every value of the dict
ItemsRows(workspace, items) ==
    IF items = <<>> THEN <<>>
    ELSE TimeRows(workspace, Head(items).v.val)
         \o ItemsRows(workspace, Tail(items))

\* for dataset in objects: rows.append({"canceled": dataset})
CanceledRows(list) == [i \in 1..Len(list) |-> [canceled |-> VStr(list[i])]]

RECURSIVE BuildRows(_)
\* for workspace, objects in data_json.items(): the rows of a list value
\* are canceled rows, those of any other value come from its items
BuildRows(data_json) ==
    IF data_json = <<>> THEN <<>>
    ELSE LET workspace == Head(data_json).k
             objects == Head(data_json).v
         IN  (IF objects.kind = "list" THEN CanceledRows(objects.val)
              ELSE ItemsRows(workspace, objects.val))
             \o BuildRows(Tail(data_json))

\* pandas.DataFrame(rows).fillna("-"): the columns are the keys of all rows,
\* a cell a row has no key for holds "-"
FillNa(rows) ==
    LET columns == UNION {DOMAIN rows[i] : i \in 1..Len(rows)}
    IN  [i \in 1..Len(rows) |->
            [c \in columns |-> IF c \in DOMAIN rows[i] THEN rows[i][c] ELSE DASH]]

\* self._data.to_excel(excel_buffer): the binary of a table
ToExcel(table) == [format |-> "xlsx", sheet |-> table]

\* the uploader and the process status, as one record
SpState ==
    [ pc |-> sp_pc, access_token |-> sp_access_token, logins |-> sp_logins,
      data |-> sp_data, buffer |-> excel_buffer, attempt |-> sp_attempt,
      puts |-> puts, exitCode |-> exitCode, fatal |-> fatal ]

SpBecomes(s) ==
    /\ sp_pc' = s.pc
    /\ sp_access_token' = s.access_token
    /\ sp_logins' = s.logins
    /\ sp_data' = s.data
    /\ excel_buffer' = s.buffer
    /\ sp_attempt' = s.attempt
    /\ puts' = s.puts
    /\ exitCode' = s.exitCode
    /\ fatal' = s.fatal
    /\ UNCHANGED infoVars

\* put_in_sharepoint(data_json) is called with what get_info() returned: the
\* rows, the table and the binary are built, the upload loop starts
PutInSharepoint ==
    /\ pc = "done"
    /\ ret.set
    /\ exitCode = NoExit
    /\ sp_pc = "idle"
    /\ LET table == FillNa(BuildRows(ret.val)) IN
       SpBecomes([SpState EXCEPT !.data = table, !.buffer = ToExcel(table),
                                 !.attempt = 1, !.pc = "put"])

\* a slip: the loop goes on after a successful PUT
put_answered_no_return(s, status) ==
    IF Uploaded(status)
    THEN IF s.attempt < MAX_RETRIES THEN [s EXCEPT !.attempt = s.attempt + 1]
         ELSE [s EXCEPT !.pc = "uploaded", !.attempt = 0]
    ELSE LET t == handle_request_exception(s, s.attempt, status) IN
         IF t.pc = "exited" THEN t
         ELSE IF s.attempt < MAX_RETRIES
              THEN [t EXCEPT !.attempt = s.attempt + 1]
              ELSE [t EXCEPT !.pc = "returned", !.attempt = 0]

\* what follows the answer of a PUT: return on 200, 201 and 204; anything
\* else, a transport failure included, goes as a RequestException to
\* handle_request_exception, whose get_new_token stores login(SCOPE) in
\* self._access_token; then the next attempt, or the end of the loop
put_answered(s, status) ==
    IF Uploaded(status) THEN [s EXCEPT !.pc = "uploaded", !.attempt = 0]
    ELSE LET t == handle_request_exception(s, s.attempt, status) IN
         IF t.pc = "exited" THEN t
         ELSE IF s.attempt < MAX_RETRIES
              THEN [t EXCEPT !.attempt = s.attempt + 1]
              ELSE [t EXCEPT !.pc = "returned", !.attempt = 0]

\* one attempt of the upload loop: requests.put with the binary as its body
\* and the token held now, and its answer
PutRequest(status) ==
    /\ sp_pc = "put"
    /\ exitCode = NoExit
    /\ SpBecomes(put_answered(
           [SpState EXCEPT !.puts =
               Append(puts, [body |-> excel_buffer, tok |-> sp_access_token,
                             status |-> status])],
           status))

\* listing answers of the runs that are followed up to the upload
ReportListings ==
    { <<[name |-> "WA", id |-> "1"]>>,
      <<[name |-> "WA", id |-> "1"], [name |-> "WB", id |-> "2"]>> }

\* The whole program, get_info() and then put_in_sharepoint() on what it
\* returned, with a Power BI service that answers every listing request and
\* knows no schedule for some datasets.
NextReport ==
    \/ GetInfo
    \/ \E l \in ReportListings : S1Request([status |-> OK, value |-> l])
    \/ \E a \in {x \in S2DataflowAnswers : x.status = OK} : S2Dataflows(a)
    \/ \E a \in {x \in S2DatasetAnswers : x.status = OK} : S2Datasets(a)
    \/ \E a \in {x \in S3Answers : x.status \in {OK, NOT_FOUND}} : S3Request(a)
    \/ PutInSharepoint
    \/ \E status \in PutAnswers : PutRequest(status)

SpecReport == Init /\ [][NextReport]_vars

(***************************************************************************)
(* What the claims speak about.                                            *)
(***************************************************************************)
\* the value get_info() returned
Result == ret.val

Returned == pc = "done" /\ ret.set

\* the (workspace, dataset) pairs of the Stage 2 result, in loop order
RECURSIVE PairsFrom(_, _, _)
PairsFrom(objects, i, j) ==
    IF i > Len(objects) THEN <<>>
    ELSE IF j > Len(objects[i].v.datasets) THEN PairsFrom(objects, i + 1, 1)
         ELSE <<[w |-> objects[i].k, d |-> objects[i].v.datasets[j].k]>>
              \o PairsFrom(objects, i, j + 1)

StagePairs == PairsFrom(JsonLoads(self_objects), 1, 1)

\* the entry keyed by d under the datasets of w in a result, if any
HasEntry(res, w, d) == Has(res, w) /\ Has(DatasetsOf(res, w), d)
Entry(res, w, d) == Get(DatasetsOf(res, w), d)

\* the entry is a schedule record: a dict with days, times and enabled
Populated(res, w, d) ==
    /\ HasEntry(res, w, d)
    /\ Entry(res, w, d).kind = "dict"
    /\ \A f \in {"days", "times", "enabled"} : Has(Entry(res, w, d).val, f)

\* d is in the canceled list of w in a result
InCanceled(res, w, d) ==
    /\ Has(res, "canceled")
    /\ Has(Get(res, "canceled").val, w)
    /\ SeqHas(CanceledOf(Get(res, "canceled").val, w), d)

\* the entries of the last Stage 3 pass with a given answer status
LogIndexes(status) == {i \in 1..Len(passLog) : passLog[i].a.status = status}

\* C1: when Stage 3 has returned, every dataset that Stage 2 listed for a
\* workspace has in the final result either a populated schedule record under
\* that workspace's datasets or its name in the canceled list of the
\* workspace, never both and never neither.
C1_ExactlyOnePlace ==
    Returned =>
        \A i \in 1..Len(StagePairs) :
            LET p == StagePairs[i]
            IN  Populated(Result, p.w, p.d) # InCanceled(Result, p.w, p.d)

\* C2: for every dataset whose refresh-schedule request succeeded, the final
\* result holds under its workspace's datasets, keyed by the dataset, a
\* record with the days, times and enabled of that answer, "none" standing
\* for a field the answer lacks.
C2_RecordPerDataset ==
    Returned =>
        \A i \in LogIndexes(OK) :
            LET e == passLog[i]
            IN  /\ Populated(Result, e.w, e.d)
                /\ \A f \in {"days", "times", "enabled"} :
                       Get(Entry(Result, e.w, e.d).val, f) = FieldOr(e.a.body, f)

RequestStep(stage) ==
    CASE stage = 1 -> pc = "s1"
      [] stage = 2 -> pc \in {"s2_df", "s2_ds"}
      [] stage = 3 -> pc = "s3"

\* a step that issues a request of the given stage and gets an answer of one
\* of the given statuses
AnsweredStep(stage, statuses) ==
    RequestStep(stage) /\ lastReq'.stage = stage /\ lastReq'.status \in statuses

\* the Stage 3 pass so far has requested the pairs of the Stage 2 result in
\* loop order, each once
PassInOrder ==
    /\ Len(passLog) <= Len(StagePairs)
    /\ \A i \in 1..Len(passLog) :
           passLog[i].w = StagePairs[i].w /\ passLog[i].d = StagePairs[i].d

\* the pair the loops of _get_schedules are at
CurrentPair ==
    LET o == JsonLoads(self_objects)[wi]
    IN  [w |-> o.k, d |-> o.v.datasets[di].k]

\* what a Stage 3 request answered 403 does in its step
C4_RestartStep ==
    AnsweredStep(3, {FORBIDDEN}) =>
        /\ logins' = logins + 1
        /\ access_token' = logins'
        /\ access_token' # access_token
        /\ pc' = "s3"
        /\ passLog' = <<>>
        /\ CurrentPair' = StagePairs[1]
        /\ headers3' = access_token'

\* what holds of every Stage 3 pass, the one after a restart included
C4_EveryPass ==
    /\ lastReq.stage = 3 => lastReq.tok = lastReq.latest
    /\ pc \in {"s3", "done"} => PassInOrder
    /\ pc = "s3" => CurrentPair = StagePairs[Len(passLog) + 1]
                    /\ headers3 = access_token
    /\ Returned => Len(passLog) = Len(StagePairs)

\* C4: a 403 answer to a Stage 3 request causes exactly one login, the
\* credential becomes the token it returned, and Stage 3 starts over at the
\* first dataset of the first workspace with headers carrying the new token;
\* every pass requests the pairs in order from the first, each Stage 3
\* request carries the token held when it is issued, and the pass that
\* returns has requested every pair.
C4_ReauthRestart == [] C4_EveryPass /\ [][C4_RestartStep]_vars

\* a 403 on a dataset that is not the first one has just restarted Stage 3
C4_Witness ==
    /\ pc = "s3"
    /\ lastReq.stage = 3
    /\ lastReq.status = FORBIDDEN
    /\ passLog = <<>>
    /\ lastReq.item # JsonLoads(self_objects)[wi].v.datasets[di].v
    /\ access_token = MaxLogins

RECURSIVE Replay(_, _)
\* the steps of _get_schedules on the answers of a log
Replay(s, log) ==
    IF log = <<>> THEN s
    ELSE Replay(schedules_step(s, Head(log).a), Tail(log))

\* Stage 3 run on a fresh self._data and self._canceled with the answers of
\* the last pass
CleanRun ==
    Replay(get_schedules([State EXCEPT !.self_data = AsDict(<<>>),
                                       !.self_canceled = <<>>]),
           passLog)

\* C5: the result of Stage 3 is the result of a run without any 403 in which
\* every dataset gets the answer it got in the last pass.
C5_RestartIndependent == Returned => Result = CleanRun.ret.val

\* what a Stage 3 request that fails with neither 403 nor 404 is to do
C6_FailureStep ==
    AnsweredStep(3, {SERVER_ERROR, NoResponse}) =>
        /\ pc' \in {"s3", "done"}
        /\ exitCode' = NoExit
        /\ logins' = logins
        /\ access_token' = access_token
        /\ CanceledOf(self_canceled', CurrentPair.w)
               = IF Has(self_canceled, CurrentPair.w)
                 THEN CanceledOf(self_canceled, CurrentPair.w) ELSE <<>>
        /\ pc' = "s3" =>
               /\ Len(passLog') = Len(passLog) + 1
               /\ CurrentPair' = StagePairs[Len(passLog') + 1]

\* C6: a Stage 3 failure that is neither 403 nor 404, an error status or a
\* transport failure without a response, does not end the process, causes no
\* login, does not put the dataset into the canceled list, and the loop goes
\* on with the next dataset.
C6_OtherFailureContinues == [][C6_FailureStep]_vars

\* C7: every request carries the token held when it is issued, which is the
\* most recently issued one.
C7_LatestCredential ==
    /\ access_token = logins
    /\ lastReq.stage # 0 => lastReq.tok = lastReq.latest

\* the entry of a workspace name in the Stage 2 accumulator, or in the Stage 2
\* result once the pass has returned
ContentOf(at, content, stored, name) ==
    IF at \in {"s2_df", "s2_ds"} THEN Get(content, name)
    ELSE Get(JsonLoads(stored), name)

\* what a Stage 2 request answered 403 is to do
C8_ForbiddenStep ==
    AnsweredStep(2, {FORBIDDEN}) =>
        LET workspace == JsonLoads(self_workspaces)[wi] IN
        /\ logins' = logins
        /\ access_token' = access_token
        /\ pc' \notin {"exited", "crashed"}
        /\ pc' \in {"s2_df", "s2_ds"} =>
               pc' = "s2_df" /\ wi' = wi + 1 /\ attempt2' = attempt2
        /\ ContentOf(pc', all_content', self_objects', workspace.name).datasets
               = <<>>

\* C8: a 403 for a workspace during Stage 2 causes no login, changes no
\* credential, uses up no attempt and does not end the run; the workspace is
\* in the output with empty datasets and the loop goes to the next workspace.
C8_WorkspaceSkipped == [][C8_ForbiddenStep]_vars

\* C9: when Stage 2 has used up its attempts, a fatal entry is logged and the
\* process ends with a non-zero status; no Stage 3 request was issued.
C9_FatalNonZeroExit ==
    (pc = "exited" /\ lastReq.stage = 2) =>
        /\ fatal
        /\ exitCode # <<0>>
        /\ passLog = <<>>

\* no request of a stage whose property holds a returned value
C10_NoRequestAgain ==
    /\ self_workspaces.tag = "str" => ~RequestStep(1)
    /\ self_objects.tag = "str" => ~RequestStep(2)
    /\ self_data.tag = "str" => ~RequestStep(3)

\* a returned value is never replaced
C10_StoredStep ==
    /\ self_workspaces.tag = "str" => self_workspaces' = self_workspaces
    /\ self_objects.tag = "str" => self_objects' = self_objects
    /\ self_data.tag = "str" => self_data' = self_data /\ pc' = "done"
    /\ ret.set => ret' = ret

\* C10: once a property has returned a value, no request of its stage is
\* issued again and the stored value stays the same, an empty result
\* included; a second get_info call returns what the first returned.
C10_ComputedOnce == [] C10_NoRequestAgain /\ [][C10_StoredStep]_vars

\* a second get_info call has returned, after a run in which restarts of
\* Stage 3 read the stored Stage 2 result
C10_Witness ==
    /\ Returned
    /\ calls = MaxCalls
    /\ access_token = MaxLogins

\* what a Stage 3 request answered 404 does in its step
C11_NotFoundStep ==
    AnsweredStep(3, {NOT_FOUND}) =>
        /\ logins' = logins
        /\ access_token' = access_token
        /\ exitCode' = NoExit
        /\ pc' \in {"s3", "done"}
        /\ passLog' # <<>>
        /\ SubSeq(passLog', 1, Len(passLog)) = passLog
        /\ Len(passLog') = Len(passLog) + 1
        /\ pc' = "s3" =>
               /\ CurrentPair' = StagePairs[Len(passLog') + 1]
               /\ headers3' = lastReq'.tok
               /\ headers3' = access_token
        /\ pc' = "done" => Len(passLog') = Len(StagePairs)

\* C11: a 404 answer to a Stage 3 request causes no login, does not start
\* Stage 3 over and does not end the run; the loop goes to the next dataset,
\* whose request carries the credential the answered one carried, or Stage 3
\* returns if the dataset was the last one.
C11_NotFoundContinues == [][C11_NotFoundStep]_vars

\* a 404 after a restart, on a dataset that is not the last one
C11_Witness ==
    /\ pc = "s3"
    /\ lastReq.stage = 3
    /\ lastReq.status = NOT_FOUND
    /\ passLog # <<>>
    /\ passLog[Len(passLog)].a.status = NOT_FOUND
    /\ access_token = MaxLogins

(***************************************************************************)
(* Stage 1 on longer listing answers.                                      *)
(***************************************************************************)
\* longest workspace list of a listing answer when Stage 1 is run alone
MaxListed == 3

ListingAnswers ==
    {[status |-> OK, value |-> l] : l \in SeqsUpTo(WsRecords, MaxListed)}
    \cup {[status |-> c, value |-> <<>>] : c \in {FORBIDDEN, SERVER_ERROR, NoResponse}}

\* get_info() up to the end of Stage 1
NextListing ==
    \/ GetInfo
    \/ \E a \in ListingAnswers : S1Request(a)

SpecListing == Init /\ [][NextListing]_vars

\* the record has a name and an id
Complete(r) == r.name # "" /\ r.id # ""

\* the place of the first occurrence of r in l
FirstAt(l, r) == CHOOSE i \in 1..Len(l) : l[i] = r /\ \A j \in 1..(i - 1) : l[j] # r

\* what the step of a successful listing request does
C12_ListingStep ==
    AnsweredStep(1, {OK}) =>
        LET l == lastReq'.listed
            out == JsonLoads(self_workspaces')
        IN  /\ self_workspaces'.tag = "str"
            /\ \A j \in 1..Len(out) : Complete(out[j]) /\ SeqHas(l, out[j])
            /\ \A i \in 1..Len(l) : Complete(l[i]) => SeqHas(out, l[i])
            /\ \A j, k \in 1..Len(out) :
                   j < k => FirstAt(l, out[j]) < FirstAt(l, out[k])
            /\ exitCode' = NoExit
            /\ pc' \notin {"s1", "exited", "crashed"}
            /\ attempt1' = 0
            /\ logins' = logins
            /\ access_token' = access_token

\* C12: the output of Stage 1 for a successful listing answer holds exactly
\* the records of the answer that have a non-empty name and a non-empty id,
\* one entry per distinct (name, id) pair, in the order of first occurrence;
\* a record without name or id is dropped: the process does not end, Stage 1
\* returns in the same attempt and no login happens.
C12_ListedExactly == [][C12_ListingStep]_vars

\* Stage 1 has returned on its second attempt for an answer in which a pair
\* is repeated and a record without name or id stands between its occurrences
C12_Witness ==
    /\ lastReq.stage = 1
    /\ lastReq.status = OK
    /\ Len(lastReq.listed) = MaxListed
    /\ lastReq.listed[1] = lastReq.listed[MaxListed]
    /\ \E i \in 1..MaxListed : ~Complete(lastReq.listed[i])
    /\ Len(JsonLoads(self_workspaces)) = 1
    /\ logins = 1

\* C13: workspaces are kept apart by id: once Stage 2 has returned, its
\* output has an entry with the id of every workspace of the Stage 1 output,
\* two workspaces of the same name and different ids included, and every
\* Stage 3 request pairs a dataset id with the id of the workspace in which
\* Stage 2 listed the dataset.
C13_KeptApartById ==
    /\ (self_workspaces.tag = "str" /\ self_objects.tag = "str") =>
           \A i \in 1..Len(JsonLoads(self_workspaces)) :
               \E j \in 1..Len(JsonLoads(self_objects)) :
                   JsonLoads(self_objects)[j].v.workspace_id
                       = JsonLoads(self_workspaces)[i].id
    /\ lastReq.stage = 3 => lastReq.item[1] = lastReq.ws

\* the canceled lists of the result, by workspace, and the names in them
CanceledLists == Get(Result, "canceled").val
CanceledNames ==
    UNION { {CanceledOf(CanceledLists, CanceledLists[i].k)[j] :
                j \in 1..Len(CanceledOf(CanceledLists, CanceledLists[i].k))} :
            i \in 1..Len(CanceledLists) }

\* how often a name stands in the canceled lists
Occurrences(d) ==
    Cardinality({ p \in (1..Len(CanceledLists)) \X (1..MaxDatasets) :
                    LET list == CanceledOf(CanceledLists, CanceledLists[p[1]].k)
                    IN  p[2] <= Len(list) /\ list[p[2]] = d })

\* the row is a canceled row, of dataset d
IsCanceledRow(r) == "canceled" \in DOMAIN r /\ r.canceled # DASH
IsCanceledRowOf(r, d) == "canceled" \in DOMAIN r /\ r.canceled = VStr(d)

\* C14: the table put_in_sharepoint builds from what get_info() returned has
\* exactly one row {canceled: d} for every dataset name d in a canceled list.
C14_CanceledRows ==
    sp_pc # "idle" =>
        \A d \in CanceledNames :
            Cardinality({n \in 1..Len(sp_data) : IsCanceledRowOf(sp_data[n], d)})
                = Occurrences(d)

\* the row is a time row of dataset d of workspace w
IsTimeRowOf(r, w, d) ==
    "time" \in DOMAIN r /\ r.name = VStr(d) /\ r.workspace = VStr(w)

\* the scheduled times of a successful answer; none if the answer has no times
TimesOf(body) == IF Has(body, "times") THEN Get(body, "times").val ELSE <<>>

\* C15: the table put_in_sharepoint builds from what get_info() returned has,
\* for every dataset d of a workspace w whose request succeeded, exactly one
\* row per scheduled time t, with name d, workspace w, time t and the
\* enabled flag of d, and no time row if the answer had no times; every row
\* is such a row or a canceled row.
C15_TimeRows ==
    sp_pc # "idle" =>
        /\ \A i \in LogIndexes(OK) :
               LET e == passLog[i]
                   mine == {n \in 1..Len(sp_data) :
                               IsTimeRowOf(sp_data[n], e.w, e.d)}
               IN  /\ Cardinality(mine) = Len(TimesOf(e.a.body))
                   /\ \A k \in 1..Len(TimesOf(e.a.body)) :
                          \E n \in mine :
                              /\ sp_data[n].time = VStr(TimesOf(e.a.body)[k])
                              /\ sp_data[n].enabled = FieldOr(e.a.body, "enabled")
        /\ \A n \in 1..Len(sp_data) :
               \/ IsCanceledRow(sp_data[n])
               \/ \E i \in LogIndexes(OK) :
                      IsTimeRowOf(sp_data[n], passLog[i].w, passLog[i].d)

\* what the steps of a Stage 2 pass are to do for the datasets requests
C16_PassStep ==
    /\ (pc \notin {"s2_df", "s2_ds"} /\ pc' \in {"s2_df", "s2_ds"}) =>
           pc' = "s2_df" /\ wi' = 1
    /\ (pc = "s2_df" /\ AnsweredStep(2, {OK, FORBIDDEN})) =>
           pc' = "s2_ds" /\ wi' = wi /\ attempt2' = attempt2
    /\ (pc = "s2_ds" /\ AnsweredStep(2, {OK, FORBIDDEN})) =>
           \/ pc' = "s2_df" /\ wi' = wi + 1 /\ attempt2' = attempt2
           \/ wi = Len(JsonLoads(self_workspaces)) /\ self_objects'.tag = "str"

\* C16: a Stage 2 pass starts at the first workspace; unless a failure ends
\* the pass, the answer to the dataflows request of a workspace, whatever it
\* is, is followed by the datasets request of the same workspace, and the
\* answer to that by the next workspace or by the end of the pass: a pass
\* that runs to completion has issued exactly one datasets request for each
\* workspace of the Stage 1 output, in order.
C16_DatasetsOfEveryWorkspace == [][C16_PassStep]_vars

\* the answers of the Stage 2 pass that the step completes: the log of the
\* pass and the answer of the step
CompletedPass ==
    IF lastReq'.stage = 2 THEN Append(objLog, lastReq') ELSE objLog

\* the step in which Stage 2 returns
Stage2Returns == self_objects.tag = "dict" /\ self_objects'.tag = "str"

\* a datasets answer of the log delivered dataset d with id v
DeliveredDataset(log, d, v) ==
    \E i \in 1..Len(log) :
        /\ log[i].item = <<"datasets">>
        /\ log[i].status = OK
        /\ SeqHas(log[i].listed, d)
        /\ v = DatasetId(log[i].ws, d)

\* a dataflows answer of the log delivered dataflow f with id v
DeliveredDataflow(log, f, v) ==
    \E i \in 1..Len(log) :
        /\ log[i].item = <<"dataflows">>
        /\ log[i].status = OK
        /\ SeqHas(log[i].listed, [name |-> f, objectId |-> v])

\* what the steps of Stage 2 do about its passes
C17_PassStep ==
    /\ attempt2' <= MAX_RETRIES
    /\ (pc \notin {"s2_df", "s2_ds"} /\ attempt2' # 0) =>
           attempt2' = 1 /\ all_content' = <<>> /\ objLog' = <<>>
    /\ AnsweredStep(2, {OK, FORBIDDEN}) => attempt2' \in {attempt2, 0}
    /\ AnsweredStep(2, {SERVER_ERROR, NoResponse}) =>
           \/ /\ attempt2 < MAX_RETRIES
              /\ attempt2' = attempt2 + 1
              /\ pc' = "s2_df"
              /\ wi' = 1
              /\ all_content' = <<>>
              /\ objLog' = <<>>
           \/ /\ attempt2 = MAX_RETRIES
              /\ pc' = "exited"
    /\ Stage2Returns =>
           \A j \in 1..Len(JsonLoads(self_objects')) :
               LET entry == JsonLoads(self_objects')[j].v IN
               /\ \E i \in 1..Len(CompletedPass) :
                      CompletedPass[i].ws = entry.workspace_id
               /\ \A k \in 1..Len(entry.datasets) :
                      DeliveredDataset(CompletedPass, entry.datasets[k].k,
                                       entry.datasets[k].v)
               /\ \A k \in 1..Len(entry.dataflows) :
                      DeliveredDataflow(CompletedPass, entry.dataflows[k].k,
                                        entry.dataflows[k].v)

\* C17: Stage 2 runs at most MAX_RETRIES passes; the first pass and every
\* pass started by a failure other than a 403 begin at the first workspace
\* with an empty accumulator, a failure in the last pass ends the process;
\* what Stage 2 returns holds only workspaces, datasets and dataflows that
\* the requests of the pass that ran to completion delivered.
C17_SinglePassResult == [][C17_PassStep]_vars

\* the last pass Stage 2 may run, started by a failure, has gathered the
\* datasets of the first workspace again and is at the last workspace
C17_Witness ==
    /\ pc = "s2_ds"
    /\ attempt2 = MAX_RETRIES
    /\ wi = MaxRecords
    /\ Len(objLog) = 2 * MaxRecords - 1
    /\ all_content[1].v.datasets # <<>>

\* Every refresh-schedule request is answered or fails within TIMEOUT, and
\* the sequential program then takes its next step: a Stage 3 step that can
\* be taken is taken.  The token provider issues at most MaxLogins tokens, so
\* only finitely many requests answer 403 in any run.
FairSpec == Spec /\ WF_vars(\E a \in S3Answers : S3Request(a))

\* C18: with only finitely many 403 answers, Stage 3, once started,
\* eventually returns a result, and the pass that returns has issued exactly
\* one request for every (workspace, dataset) pair of the Stage 2 output.
C18_Stage3Returns ==
    /\ (pc = "s3") ~> Returned
    /\ [](Returned => PassInOrder /\ Len(passLog) = Len(StagePairs))

\* C19: put_in_sharepoint issues at most MAX_RETRIES PUT requests, each with
\* the binary built before the first of them as its body; a PUT answered 200,
\* 201 or 204 is the last one, and the upload has then succeeded; a PUT with
\* any other outcome, another 2xx status included, is a failed attempt: the
\* upload has not succeeded, and the next attempt follows unless the attempts
\* are used up or the process has ended.
C19_BoundedUpload ==
    /\ Len(puts) <= MAX_RETRIES
    /\ \A i \in 1..Len(puts) :
           /\ puts[i].body = ToExcel(sp_data)
           /\ puts[i].body = puts[1].body
           /\ Uploaded(puts[i].status) => i = Len(puts)
           /\ ~Uploaded(puts[i].status) =>
                  (i < Len(puts) \/ sp_pc \in {"put", "exited", "returned"})
    /\ sp_pc = "uploaded" <=>
           (puts # <<>> /\ Uploaded(puts[Len(puts)].status))
    /\ sp_pc = "put" => sp_attempt = Len(puts) + 1 /\ sp_attempt <= MAX_RETRIES

\* the upload has succeeded in the last attempt, after an attempt answered
\* with another 2xx status
C19_Witness ==
    /\ sp_pc = "uploaded"
    /\ Len(puts) = MAX_RETRIES
    /\ puts[1].status = ACCEPTED
    /\ sp_data # <<>>

\* C20: within a Stage 3 pass the pacing delay, time.sleep(REQUEST_INTERVAL),
\* has run between a request and the request after it, whatever the answer
\* to the earlier one was: when the pass is about to issue a request that is
\* not its first, the sleep has run since the request before.
C20_PacedRequests == (pc = "s3" /\ passLog # <<>>) => slept

====
